---- MODULE Spec2Model ----
(***************************************************************************)
(* Model of frontend/content.js: the content script that injects the       *)
(* "summarize" button into the watch page, and the click handler that      *)
(* asks the local transcript service for a summary.                        *)
(*                                                                         *)
(* Strings that the script parses or assembles (page address, request      *)
(* address, identifiers, languages) are sequences of symbols; a symbol is  *)
(* one character, one percent-escape ("%26") or one fixed word             *)
(* ("video_id").  Messages and summaries, which are only displayed, are    *)
(* plain strings.                                                          *)
(***************************************************************************)
EXTENDS Integers, Sequences, FiniteSets, TLC

VARIABLES
    dom,              \* the two host containers the injector looks at
    loaded,           \* the script's top level (lines 271-278) has run
    mutationPending,  \* a MutationObserver notification is queued
    ran,              \* the last step was a run of addSummarizeButtonIfNeeded
    storageSync,      \* the items of chrome.storage.sync
    spinner,          \* number of #loading-spinner-overlay elements in body
    modals,           \* texts of the summary modals attached to body, in order
    click,            \* one record per invocation of handleSummarizeButtonClick
    urlCase           \* one address taken through extraction, request, decoding

vars == <<dom, loaded, mutationPending, ran, storageSync, spinner, modals, click, urlCase>>

(***************************************************************************)
(* Bounds                                                                  *)
(***************************************************************************)
MaxSiblings == 2      \* host elements beside the anchor / in the fallback container
MaxClicks == 2        \* invocations of the click handler in one run
MaxQueryLen == 5      \* symbols in the query of a page address

(***************************************************************************)
(* Sequence helpers                                                        *)
(***************************************************************************)
Range(s) == {s[i] : i \in 1..Len(s)}

Count(s, e) == Cardinality({i \in 1..Len(s) : s[i] = e})

\* index of the first occurrence of e in s, 0 when there is none
IndexOf(s, e) ==
    IF e \in Range(s) THEN CHOOSE i \in 1..Len(s) : s[i] = e /\ \A j \in 1..(i-1) : s[j] # e
    ELSE 0

InsertAt(s, i, e) == SubSeq(s, 1, i) \o <<e>> \o SubSeq(s, i+1, Len(s))

RemoveAt(s, i) == SubSeq(s, 1, i-1) \o SubSeq(s, i+1, Len(s))

SeqsUpTo(S, n) == UNION {[1..k -> S] : k \in 0..n}

(***************************************************************************)
(* The page: container "subscribe" holds the children of the element that  *)
(* the primary selector's last step looks into ("div" is the element the   *)
(* selector matches); "actions" holds the children of                      *)
(* #top-level-buttons-computed when hasActions.  "btn" is an element with  *)
(* id mySummarizeButton, "el" any other host element.                      *)
(***************************************************************************)
\* document.querySelector('#mySummarizeButton')
QueryButton(d) == "btn" \in Range(d.subscribe) \/ "btn" \in Range(d.actions)

\* document.querySelector("#subscribe-button > ... > yt-touch-feedback-shape > div")
QuerySubscribeBtnDiv(d) == IndexOf(d.subscribe, "div")

ButtonCount(d) == Count(d.subscribe, "btn") + Count(d.actions, "btn")

\* subscribeBtnDiv.insertAdjacentElement('afterend', summarizeBtn)
InsertAfterSubscribe(d) ==
    [d EXCEPT !.subscribe = InsertAt(d.subscribe, QuerySubscribeBtnDiv(d), "btn")]

\* actionButtonsContainer.appendChild(summarizeBtn)
AppendToActions(d) == [d EXCEPT !.actions = Append(d.actions, "btn")]

\* mutants of the injector
AddButtonUnchecked(d) ==
    IF QuerySubscribeBtnDiv(d) # 0 THEN InsertAfterSubscribe(d)
    ELSE IF d.hasActions THEN AppendToActions(d)
    ELSE d

AddButtonFallbackFirst(d) ==
    IF QueryButton(d) THEN d
    ELSE IF d.hasActions THEN AppendToActions(d)
    ELSE IF QuerySubscribeBtnDiv(d) # 0 THEN InsertAfterSubscribe(d)
    ELSE d

addSummarizeButtonIfNeeded(d) ==
    IF QuerySubscribeBtnDiv(d) # 0 /\ ~QueryButton(d)
    THEN InsertAfterSubscribe(d)
    ELSE IF QuerySubscribeBtnDiv(d) = 0 /\ ~QueryButton(d)
         THEN IF d.hasActions /\ ~QueryButton(d) THEN AppendToActions(d) ELSE d
         ELSE d

\* the host's pages before the script has touched them
HostSubscribe == {s \in SeqsUpTo({"div", "el"}, MaxSiblings + 1) :
                     Count(s, "div") <= 1 /\ Count(s, "el") <= MaxSiblings}

HostActions == SeqsUpTo({"el"}, MaxSiblings)

HostDoms == {[subscribe |-> s, actions |-> a, hasActions |-> h] :
                s \in HostSubscribe, a \in HostActions, h \in BOOLEAN}
            \ {[subscribe |-> s, actions |-> a, hasActions |-> FALSE] :
                s \in HostSubscribe, a \in HostActions \ {<<>>}}

(***************************************************************************)
(* JavaScript values, as far as the handler looks at them                  *)
(***************************************************************************)
Null == [type |-> "null", val |-> <<>>]

Undefined == [type |-> "undefined", val |-> <<>>]

Str(s) == [type |-> "string", val |-> s]

Obj(items) == [type |-> "object", val |-> items]

\* mutant: only a missing value counts as absent
NotNullOnly(v) == v.type \in {"null", "undefined"}

\* !v
Not(v) == v.type \in {"null", "undefined"} \/ (v.type = "string" /\ v.val = <<>>)

\* a !== b
StrictNotEqual(a, b) == IF a.type # b.type THEN TRUE ELSE a.val # b.val

\* o.k
GetProp(o, k) == IF k \in DOMAIN o.val THEN Str(o.val[k]) ELSE Undefined

\* `${v}`
Interpolate(v) == IF v.type = "string" THEN v.val ELSE <<v.type>>

(***************************************************************************)
(* Addresses                                                               *)
(***************************************************************************)
StripFragment(u) == IF "#" \in Range(u) THEN SubSeq(u, 1, IndexOf(u, "#") - 1) ELSE u

\* the query of an address: what follows the first "?", without the fragment
UrlQuery(u) ==
    LET s == StripFragment(u)
    IN IF "?" \in Range(s) THEN SubSeq(s, IndexOf(s, "?") + 1, Len(s)) ELSE <<>>

RECURSIVE SplitOn(_, _)
SplitOn(s, sep) ==
    IF sep \in Range(s)
    THEN <<SubSeq(s, 1, IndexOf(s, sep) - 1)>>
             \o SplitOn(SubSeq(s, IndexOf(s, sep) + 1, Len(s)), sep)
    ELSE <<s>>

PercentDecode(sym) ==
    CASE sym = "+" -> " "
      [] sym = "%20" -> " "
      [] sym = "%26" -> "&"
      [] sym = "%23" -> "#"
      [] sym = "%3D" -> "="
      [] OTHER -> sym

DecodeComponent(s) == [i \in 1..Len(s) |-> PercentDecode(s[i])]

ParsePair(p) ==
    IF "=" \in Range(p)
    THEN [name |-> DecodeComponent(SubSeq(p, 1, IndexOf(p, "=") - 1)),
          value |-> DecodeComponent(SubSeq(p, IndexOf(p, "=") + 1, Len(p)))]
    ELSE [name |-> DecodeComponent(p), value |-> <<>>]

\* new URL(url).searchParams: the name/value pairs of the query, decoded
SearchParams(query) ==
    LET pieces == SelectSeq(SplitOn(query, "&"), LAMBDA p : p # <<>>)
    IN [i \in 1..Len(pieces) |-> ParsePair(pieces[i])]

\* searchParams.get(name): the first value of that name, or null
SearchParamsGet(params, name) ==
    LET hits == {i \in 1..Len(params) : params[i].name = name}
    IN IF hits = {} THEN Null
       ELSE Str(params[CHOOSE i \in hits : \A j \in hits : i <= j].value)

getVideoIdFromUrl(url) == SearchParamsGet(SearchParams(UrlQuery(url)), <<"v">>)

\* the template literal handed to fetch
TranscriptUrl(videoId, preferredLanguage) ==
    <<"http://localhost:8000/transcript", "?", "video_id", "=">> \o Interpolate(videoId)
        \o <<"&", "summary_language", "=">> \o Interpolate(preferredLanguage)

\* what fetch puts on the wire for an address: no fragment, spaces escaped
WireQuery(url) ==
    LET q == UrlQuery(url)
    IN [i \in 1..Len(q) |-> IF q[i] = " " THEN "%20" ELSE q[i]]

\* the value the endpoint decodes for a query parameter of the request
EndpointParam(url, name) == SearchParamsGet(SearchParams(WireQuery(url)), <<name>>)

PageBase == "https://www.youtube.com/watch"

(***************************************************************************)
(* Loading indicator and modal                                             *)
(***************************************************************************)
showLoadingSpinner(n) == IF n > 0 THEN n ELSE n + 1

hideLoadingSpinner(n) == IF n > 0 THEN n - 1 ELSE n

\* mutant: the modal is built without the text
DisplayWithoutText(ms, text) == Append(ms, "")

displayTranscript(ms, text) == Append(ms, text)

(***************************************************************************)
(* The click handler.  Each invocation keeps a log of what it did:         *)
(* <<"get", "">> storage read, <<"show", "">> showLoadingSpinner,          *)
(* <<"fetch", "">> request issued, <<"alert", msg>> showMessage,           *)
(* <<"modal", text>> displayTranscript, <<"hide", "">> hideLoadingSpinner. *)
(***************************************************************************)
Clicks == 1..MaxClicks

NoData == [isNull |-> TRUE, hasSummary |-> FALSE, summary |-> ""]

IdleClick == [pc |-> "idle", videoId |-> Null, preferredLanguage |-> Undefined,
              url |-> <<>>, status |-> 0, read |-> "none", body |-> "", data |-> NoData,
              log |-> <<>>]

\* what response.json() can resolve with
JsonData == {NoData}
            \cup {[isNull |-> FALSE, hasSummary |-> FALSE, summary |-> ""]}
            \cup {[isNull |-> FALSE, hasSummary |-> TRUE, summary |-> t] :
                     t \in {"", "Hello", "Bye"}}

\* what response.text() can resolve with
ErrorTexts == {"Forbidden", "Not Found"}

Statuses == {200, 403, 404, 500}

\* the addresses a click can find the page at
PageHrefs == {<<PageBase>>,
              <<PageBase, "?", "v", "=">>,
              <<PageBase, "?", "v", "=", "a">>}

NoItems == [k \in {} |-> <<>>]

\* what the user can have stored under preferredLanguage
StoredItems == {NoItems} \cup {[k \in {"preferredLanguage"} |-> l] : l \in {<<"en">>}}

\* The handler's blocks act on st = [log, spinner, modals]: the invocation's
\* log and the two pieces of the page it changes.
showMessage(st, msg) == [st EXCEPT !.log = Append(@, <<"alert", msg>>)]

\* the callback given to storage.get (lines 146-154)
StorageCallback(result) ==
    IF StrictNotEqual(result, Str(<<"undefined">>))
    THEN Str(<<"tr">>)
    ELSE GetProp(result, "preferredLanguage")

\* line 158
ShowSpinner(st) ==
    [st EXCEPT !.spinner = showLoadingSpinner(@), !.log = Append(@, <<"show", "">>)]

\* response.ok
Ok(status) == status >= 200 /\ status <= 299

\* lines 171-177
StatusMessage(status, errorText) ==
    IF status = 404 THEN "No captions or transcript found for this video."
    ELSE IF status = 500 THEN "Error fetching transcript from the server."
    ELSE "An unexpected error occurred: " \o errorText

\* data && data.summary
HasSummary(data) == ~data.isNull /\ data.hasSummary /\ data.summary # ""

\* lines 182-186
ShowResult(st, data) ==
    IF HasSummary(data)
    THEN LET ms == displayTranscript(st.modals, data.summary)
         IN [st EXCEPT !.modals = ms, !.log = Append(@, <<"modal", ms[Len(ms)]>>)]
    ELSE showMessage(st, "No summary returned from the server.")

\* the catch block
CatchBlock(st) == showMessage(st, "Failed to connect to the transcript service.")

\* mutant: the try statement has no finally block
NoFinally(st) == st

\* the finally block
FinallyBlock(st) ==
    [st EXCEPT !.spinner = hideLoadingSpinner(@), !.log = Append(@, <<"hide", "">>)]

(***************************************************************************)
(* Script load and the mutation observer (lines 271-278)                   *)
(***************************************************************************)
PageUnchanged == UNCHANGED <<storageSync, spinner, modals, click, urlCase>>

\* line 278: addSummarizeButtonIfNeeded() at load, with the observer registered
RunOnLoad ==
    /\ ~loaded
    /\ dom' = addSummarizeButtonIfNeeded(dom)
    /\ loaded' = TRUE
    /\ mutationPending' = (dom' # dom)
    /\ ran' = TRUE
    /\ PageUnchanged

\* lines 272-274: the observer's callback; an insertion it makes is itself a
\* child-list mutation of body and queues the next notification
ObserverCallback ==
    /\ loaded /\ mutationPending
    /\ dom' = addSummarizeButtonIfNeeded(dom)
    /\ mutationPending' = (dom' # dom)
    /\ ran' = TRUE
    /\ UNCHANGED loaded
    /\ PageUnchanged

\* Child-list mutations of body's subtree made by the host page (line 275 has
\* them observed).
HostMutation(d) ==
    /\ loaded
    /\ d # dom
    /\ dom' = d
    /\ mutationPending' = TRUE
    /\ ran' = FALSE
    /\ UNCHANGED loaded
    /\ PageUnchanged

HostInsertBesideAnchor ==
    \E i \in 0..Len(dom.subscribe), e \in {"div", "el"} :
        /\ e = "div" => Count(dom.subscribe, "div") = 0
        /\ e = "el" => Count(dom.subscribe, "el") < MaxSiblings
        /\ HostMutation([dom EXCEPT !.subscribe = InsertAt(dom.subscribe, i, e)])

HostRemoveBesideAnchor ==
    \E i \in 1..Len(dom.subscribe) :
        HostMutation([dom EXCEPT !.subscribe = RemoveAt(dom.subscribe, i)])

HostInsertAction ==
    \E i \in 0..Len(dom.actions) :
        /\ dom.hasActions
        /\ Count(dom.actions, "el") < MaxSiblings
        /\ HostMutation([dom EXCEPT !.actions = InsertAt(dom.actions, i, "el")])

HostRemoveAction ==
    \E i \in 1..Len(dom.actions) :
        HostMutation([dom EXCEPT !.actions = RemoveAt(dom.actions, i)])

HostAddActionsContainer ==
    /\ ~dom.hasActions
    /\ HostMutation([dom EXCEPT !.hasActions = TRUE])

HostRemoveActionsContainer ==
    /\ dom.hasActions
    /\ HostMutation([dom EXCEPT !.hasActions = FALSE, !.actions = <<>>])

NoUrlCase == [pc |-> "none", href |-> <<>>, videoId |-> Null, lang |-> <<>>,
              url |-> <<>>, video_id |-> Null, summary_language |-> Null]

InitInject ==
    /\ dom \in HostDoms
    /\ loaded = FALSE
    /\ mutationPending = FALSE
    /\ ran = FALSE
    /\ storageSync = NoItems
    /\ spinner = 0
    /\ modals = <<>>
    /\ click = [c \in Clicks |-> IdleClick]
    /\ urlCase = NoUrlCase

NextInject ==
    \/ RunOnLoad
    \/ ObserverCallback
    \/ HostInsertBesideAnchor
    \/ HostRemoveBesideAnchor
    \/ HostInsertAction
    \/ HostRemoveAction
    \/ HostAddActionsContainer
    \/ HostRemoveActionsContainer

SpecInject == InitInject /\ [][NextInject]_vars

\* The top level runs to completion and queued observer notifications are
\* delivered.
FairInject == SpecInject /\ WF_vars(RunOnLoad) /\ WF_vars(ObserverCallback)

(***************************************************************************)
(* handleSummarizeButtonClick, one action per stretch between awaits       *)
(***************************************************************************)
St(c) == [log |-> click[c].log, spinner |-> spinner, modals |-> modals]

\* the invocation c moves on with the fields in upd and the page as st leaves it
Continue(c, upd, st) ==
    /\ click' = [click EXCEPT ![c] = [k \in DOMAIN @ |->
                     IF k = "log" THEN st.log
                     ELSE IF k \in DOMAIN upd THEN upd[k] ELSE @[k]]]
    /\ spinner' = st.spinner
    /\ modals' = st.modals
    /\ UNCHANGED <<dom, loaded, mutationPending, ran, storageSync, urlCase>>

\* lines 228-231 / 263-266 and 137-146: the click listener runs the handler up
\* to the storage read.  A click is a task of its own: the notifications queued
\* by earlier tasks have been delivered when it runs.
Click(c) ==
    \E href \in PageHrefs :
        /\ loaded /\ ~mutationPending /\ QueryButton(dom)
        /\ click[c].pc = "idle"
        /\ c > 1 => click[c-1].pc # "idle"
        /\ LET videoId == getVideoIdFromUrl(href)
           IN IF Not(videoId)
              THEN Continue(c, [pc |-> "done", videoId |-> videoId],
                            showMessage(St(c), "No video ID found. Cannot get transcript."))
              ELSE Continue(c, [pc |-> "storage", videoId |-> videoId],
                            [St(c) EXCEPT !.log = Append(@, <<"get", "">>)])

\* lines 146-167: storage.get calls back, the promise resolves, the indicator
\* is shown and the request is issued
StorageGot(c) ==
    /\ click[c].pc = "storage"
    /\ LET preferredLanguage == StorageCallback(Obj(storageSync))
           shown == ShowSpinner(St(c))
       IN Continue(c, [pc |-> "fetching", preferredLanguage |-> preferredLanguage,
                       url |-> TranscriptUrl(click[c].videoId, preferredLanguage)],
                   [shown EXCEPT !.log = Append(@, <<"fetch", "">>)])

\* lines 160-170 / 181: the response's head arrives
FetchResolved(c) ==
    \E status \in Statuses :
        /\ click[c].pc = "fetching"
        /\ Continue(c, [pc |-> IF Ok(status) THEN "json" ELSE "text", status |-> status],
                    St(c))

\* lines 187-192: the request fails
FetchRejected(c) ==
    /\ click[c].pc = "fetching"
    /\ Continue(c, [pc |-> "done"], FinallyBlock(CatchBlock(St(c))))

\* lines 170-178, 190-192: the body of a non-ok response has been read
TextResolved(c) ==
    \E errorText \in ErrorTexts :
        /\ click[c].pc = "text"
        /\ Continue(c, [pc |-> "done", read |-> "text", body |-> errorText],
                    FinallyBlock(showMessage(St(c),
                                             StatusMessage(click[c].status, errorText))))

\* lines 170, 187-192: reading the body of a non-ok response fails
TextRejected(c) ==
    /\ click[c].pc = "text"
    /\ Continue(c, [pc |-> "done", read |-> "failed"], FinallyBlock(CatchBlock(St(c))))

\* lines 181-186, 190-192: the body of an ok response has been read and parsed
JsonResolved(c) ==
    \E data \in JsonData :
        /\ click[c].pc = "json"
        /\ Continue(c, [pc |-> "done", read |-> "json", data |-> data],
                    FinallyBlock(ShowResult(St(c), data)))

\* lines 181, 187-192: reading or parsing the body of an ok response fails
JsonRejected(c) ==
    /\ click[c].pc = "json"
    /\ Continue(c, [pc |-> "done", read |-> "failed"], FinallyBlock(CatchBlock(St(c))))

\* lines 53-56 and 89-92: Close, or a click on the modal's overlay
DismissModal ==
    \E i \in 1..Len(modals) :
        /\ modals' = RemoveAt(modals, i)
        /\ UNCHANGED <<dom, loaded, mutationPending, ran, storageSync, spinner, click, urlCase>>

Settle(c) ==
    \/ StorageGot(c)
    \/ FetchResolved(c)
    \/ FetchRejected(c)
    \/ TextResolved(c)
    \/ TextRejected(c)
    \/ JsonResolved(c)
    \/ JsonRejected(c)

InitClick ==
    /\ dom \in {[subscribe |-> <<"div">>, actions |-> <<>>, hasActions |-> FALSE],
                [subscribe |-> <<>>, actions |-> <<>>, hasActions |-> TRUE]}
    /\ loaded = FALSE
    /\ mutationPending = FALSE
    /\ ran = FALSE
    /\ storageSync \in StoredItems
    /\ spinner = 0
    /\ modals = <<>>
    /\ click = [c \in Clicks |-> IdleClick]
    /\ urlCase = NoUrlCase

NextClick ==
    \/ RunOnLoad
    \/ ObserverCallback
    \/ \E c \in Clicks : Click(c)
    \/ \E c \in Clicks : StorageGot(c)
    \/ \E c \in Clicks : FetchResolved(c)
    \/ \E c \in Clicks : FetchRejected(c)
    \/ \E c \in Clicks : TextResolved(c)
    \/ \E c \in Clicks : TextRejected(c)
    \/ \E c \in Clicks : JsonResolved(c)
    \/ \E c \in Clicks : JsonRejected(c)
    \/ DismissModal

SpecClick == InitClick /\ [][NextClick]_vars

\* The storage read calls back, the request settles and a body that is being
\* read ends: every await of a started invocation is resumed.
FairClick == SpecClick /\ \A c \in Clicks : WF_vars(Settle(c))

(***************************************************************************)
(* One page address taken through the extractor, the request template and  *)
(* the endpoint's decoding of the request                                  *)
(***************************************************************************)
QuerySymbols == {"v", "a", "=", "&", "+", "%26", "%23"}

Languages == {<<"tr">>, <<"en">>}

UrlUnchanged ==
    UNCHANGED <<dom, loaded, mutationPending, ran, storageSync, spinner, modals, click>>

\* line 137-138
UrlExtract ==
    /\ urlCase.pc = "page"
    /\ LET videoId == getVideoIdFromUrl(urlCase.href)
       IN urlCase' = [urlCase EXCEPT !.videoId = videoId,
                                     !.pc = IF Not(videoId) THEN "noid" ELSE "id"]
    /\ UrlUnchanged

\* line 160
UrlRequest ==
    /\ urlCase.pc = "id"
    /\ urlCase' = [urlCase EXCEPT !.pc = "request",
                                  !.url = TranscriptUrl(urlCase.videoId, Str(urlCase.lang))]
    /\ UrlUnchanged

\* the endpoint reads its two query parameters
UrlDecode ==
    /\ urlCase.pc = "request"
    /\ urlCase' = [urlCase EXCEPT !.pc = "decoded",
                                  !.video_id = EndpointParam(urlCase.url, "video_id"),
                                  !.summary_language =
                                      EndpointParam(urlCase.url, "summary_language")]
    /\ UrlUnchanged

InitUrl ==
    /\ dom = [subscribe |-> <<>>, actions |-> <<>>, hasActions |-> FALSE]
    /\ loaded = FALSE
    /\ mutationPending = FALSE
    /\ ran = FALSE
    /\ storageSync = NoItems
    /\ spinner = 0
    /\ modals = <<>>
    /\ click = [c \in Clicks |-> IdleClick]
    /\ urlCase \in {[NoUrlCase EXCEPT !.pc = "page", !.href = <<PageBase, "?">> \o q,
                                      !.lang = l] :
                       q \in SeqsUpTo(QuerySymbols, MaxQueryLen), l \in Languages}

NextUrl == UrlExtract \/ UrlRequest \/ UrlDecode

SpecUrl == InitUrl /\ [][NextUrl]_vars

(***************************************************************************)
(* Properties                                                              *)
(***************************************************************************)
Events(c, kind) == SelectSeq(click[c].log, LAMBDA e : e[1] = kind)

Did(c, kind) == Events(c, kind) # <<>>

Alerts(c) == [i \in 1..Len(Events(c, "alert")) |-> Events(c, "alert")[i][2]]

\* the request of invocation c has started and has not been resolved
Outstanding(c) == click[c].pc \in {"fetching", "text", "json"}

\* C1: the loading indicator is in the page exactly while some summary request
\* has started and not yet resolved, overlapping requests included.
C1_SpinnerWhileOutstanding == (spinner > 0) <=> (\E c \in Clicks : Outstanding(c))

\* C2: the document never holds more than one element with id
\* mySummarizeButton, whatever the host page does and however often the
\* injector runs.
C2_AtMostOneButton == ButtonCount(dom) <= 1

\* the injector has just run with the button in the fallback container and the
\* primary anchor present as well
C2_Witness ==
    /\ ran
    /\ "btn" \in Range(dom.actions)
    /\ QuerySubscribeBtnDiv(dom) # 0

\* C3: a click on a page whose address has no v parameter, or an empty one,
\* shows "No video ID found. Cannot get transcript." and does nothing else: no
\* storage read, no loading indicator, no request.
C3_NoIdNoRequest ==
    \A c \in Clicks :
        (click[c].pc # "idle" /\ click[c].videoId \in {Null, Str(<<>>)}) =>
            /\ click[c].pc = "done"
            /\ click[c].log = <<<<"alert", "No video ID found. Cannot get transcript.">>>>
            /\ click[c].url = <<>>

\* a click made at an address with an empty v parameter has been handled
C3_Witness ==
    \E c \in Clicks : click[c].pc = "done" /\ click[c].videoId = Str(<<>>)

\* C4: a click whose request resolves with a 2xx status and a JSON body with a
\* non-empty summary opens a modal that displays exactly that summary, and
\* shows no message.
C4_SummaryDisplayed ==
    \A c \in Clicks :
        (click[c].pc = "done" /\ Ok(click[c].status) /\ click[c].read = "json"
            /\ HasSummary(click[c].data)) =>
            /\ Events(c, "modal") = <<<<"modal", click[c].data.summary>>>>
            /\ ~Did(c, "alert")

\* a click has ended with the summary "Bye" while the modal of an earlier
\* summary was attached
C4_Witness ==
    \E c \in Clicks :
        /\ click[c].pc = "done" /\ click[c].read = "json"
        /\ click[c].data.summary = "Bye"
        /\ modals = <<"Hello", "Bye">>

\* C5: a click whose request resolves with a non-2xx status opens no modal and
\* shows exactly one message, the one its status selects.
C5_StatusMessageOnly ==
    \A c \in Clicks :
        (click[c].pc = "done" /\ click[c].status # 0 /\ ~Ok(click[c].status)) =>
            /\ ~Did(c, "modal")
            /\ Alerts(c) = <<StatusMessage(click[c].status, click[c].body)>>

\* C6: the summary_language parameter of a click's request is the
\* preferredLanguage value held in storage.
C6_StoredLanguageSent ==
    \A c \in Clicks :
        (Did(c, "fetch") /\ "preferredLanguage" \in DOMAIN storageSync) =>
            EndpointParam(click[c].url, "summary_language")
                = Str(storageSync["preferredLanguage"])

\* C7: at most one summary modal is attached to the document.
C7_AtMostOneModal == Len(modals) <= 1

\* a finished invocation that showed the indicator ends its log with one
\* outcome followed by its one hideLoadingSpinner
C8_HiddenLast ==
    \A c \in Clicks :
        (click[c].pc = "done" /\ Did(c, "show")) =>
            /\ click[c].log[Len(click[c].log)] = <<"hide", "">>
            /\ Len(Events(c, "hide")) = 1
            /\ click[c].log[Len(click[c].log) - 1][1] \in {"alert", "modal"}
            /\ Len(Events(c, "alert")) + Len(Events(c, "modal")) = 1

\* with no invocation under way the indicator is out of the page
C8_AllDoneHidden == (\A c \in Clicks : click[c].pc \in {"idle", "done"}) => spinner = 0

\* C8: a click that has shown the loading indicator hides it as its last step,
\* after its one outcome (modal or message), on every path; and it gets there.
C8_HideLoadingSpinner ==
    /\ [](C8_HiddenLast /\ C8_AllDoneHidden)
    /\ \A c \in Clicks : Did(c, "show") ~> (click[c].pc = "done" /\ Did(c, "hide"))

\* two clicks have ended, one on a failed body read and one on a network failure
C8_Witness ==
    \E c, e \in Clicks :
        /\ click[c].pc = "done" /\ click[c].read = "failed" /\ Did(c, "hide")
        /\ click[e].pc = "done" /\ click[e].status = 0 /\ Did(e, "hide")

\* C9: the endpoint decodes from the request address exactly the identifier
\* the extractor returned and the language passed in.
C9_ParamsRoundTrip ==
    urlCase.pc = "decoded" =>
        /\ urlCase.video_id = urlCase.videoId
        /\ urlCase.summary_language = Str(urlCase.lang)

AnchorExists(d) == QuerySubscribeBtnDiv(d) # 0 \/ d.hasActions

\* a run of the injector that finds no button: after the primary anchor if
\* there is one, else at the end of the fallback container if there is one,
\* else nothing
C10_RunPlacesButton ==
    (ran' /\ ~QueryButton(dom)) =>
        IF QuerySubscribeBtnDiv(dom) # 0
        THEN /\ Len(dom'.subscribe) = Len(dom.subscribe) + 1
             /\ dom'.subscribe[QuerySubscribeBtnDiv(dom)] = "div"
             /\ dom'.subscribe[QuerySubscribeBtnDiv(dom) + 1] = "btn"
             /\ RemoveAt(dom'.subscribe, QuerySubscribeBtnDiv(dom) + 1) = dom.subscribe
             /\ dom'.actions = dom.actions /\ dom'.hasActions = dom.hasActions
        ELSE IF dom.hasActions
        THEN /\ dom'.actions = dom.actions \o <<"btn">>
             /\ dom'.subscribe = dom.subscribe /\ dom'.hasActions
        ELSE dom' = dom

\* C10: a run of addSummarizeButtonIfNeeded with the button absent puts it
\* right after the primary anchor, else at the end of the fallback container,
\* else changes nothing; and since a run follows every mutation, the button
\* comes back whenever an anchor exists.
C10_ButtonPlacedAndRestored ==
    /\ [][C10_RunPlacesButton]_vars
    /\ AnchorExists(dom) ~> (QueryButton(dom) \/ ~AnchorExists(dom))

\* the injector has just put the button after the primary anchor, which has a
\* host element before it, with the fallback container present too
C10_Witness ==
    /\ ran /\ mutationPending
    /\ dom.hasActions
    /\ \E i \in 2..Len(dom.subscribe) :
          /\ dom.subscribe[i-1] = "el"
          /\ i = QuerySubscribeBtnDiv(dom)
          /\ i < Len(dom.subscribe) /\ dom.subscribe[i+1] = "btn"

====
